---- MODULE Spec2Model ----
(***************************************************************************)
(* A model of the herballink Flask application (src/app.py): the users and *)
(* scans collections, the uploads directory, the per-browser session, the  *)
(* two classifiers and every route handler.                                *)
(*                                                                         *)
(* Modelling conventions                                                   *)
(*  - A file name is a sequence of one-character strings, so that          *)
(*    allowed_file's rsplit/lower are computed and not assumed.            *)
(*  - A probability is an integer number of 1/ProbUnit; the leaf           *)
(*    confidence (a percentage) is carried in 1/ProbUnit of a percent.     *)
(*  - A password hash is the triple method$salt$digest of werkzeug; the    *)
(*    digest is an uninterpreted one-way function of salt and password.    *)
(*  - Form fields are present (possibly empty) strings; the uploads        *)
(*    directory is writable; the database is reachable.  An upload that    *)
(*    the image library cannot decode makes load_img raise.                *)
(*  - A route handler is one atomic step, except POST /register, whose     *)
(*    find_one and insert_one are two steps that other requests (the       *)
(*    server is threaded) may interleave with.                             *)
(*  - last describes the step just taken: the request, the calls the       *)
(*    handler made and its response.                                       *)
(***************************************************************************)
EXTENDS Integers, Sequences, FiniteSets, TLC

VARIABLES users, scans, uploads, session, pending,
          leaf_model, skin_model, disease_classes, last

vars == <<users, scans, uploads, session, pending,
          leaf_model, skin_model, disease_classes, last>>

(***************************************************************************)
(* Bounds                                                                  *)
(***************************************************************************)
\* user records stored or about to be stored
MaxUsers == 2
\* scan records under Spec
MaxScans == 1
\* scan records under SpecPredict
MaxPredictScans == 1
\* scan records beyond ScanLimit under SpecScans
MaxExtra == 1
\* resolution of a probability: 1.0 is ProbUnit
ProbUnit == 1000

Browsers == {"b1", "b2"}
Emails == {"a@x.com", "b@x.com"}
Passwords == {"pw1234", "hunter2"}
Fullnames == {"A"}
Salts == {"s1"}

(***************************************************************************)
(* Strings as sequences of characters                                      *)
(***************************************************************************)
UpperChars == <<"A","B","C","D","E","F","G","H","I","J","K","L","M",
                "N","O","P","Q","R","S","T","U","V","W","X","Y","Z">>
LowerChars == <<"a","b","c","d","e","f","g","h","i","j","k","l","m",
                "n","o","p","q","r","s","t","u","v","w","x","y","z">>

\* str.lower() on one character
LowerChar(c) ==
    IF \E i \in 1..Len(UpperChars) : UpperChars[i] = c
    THEN LowerChars[CHOOSE i \in 1..Len(UpperChars) : UpperChars[i] = c]
    ELSE c

\* str.lower()
Lower(s) == [i \in 1..Len(s) |-> LowerChar(s[i])]

\* "." in s
HasDot(s) == \E i \in 1..Len(s) : s[i] = "."

\* s.rsplit(".", 1)[1], for s that holds a dot: what follows the last dot
RSplitDot1(s) ==
    LET k == CHOOSE i \in 1..Len(s) :
                 /\ s[i] = "."
                 /\ \A j \in (i+1)..Len(s) : s[j] # "."
    IN SubSeq(s, k + 1, Len(s))

ALLOWED_EXTENSIONS == { <<"p","n","g">>, <<"j","p","g">>, <<"j","p","e","g">> }

\* filename.split(".")[1]: what lies between the first dot and the next
AllowedFileSecondPart(filename) ==
    /\ filename # <<>>
    /\ HasDot(filename)
    /\ LET k == CHOOSE i \in 1..Len(filename) :
                   /\ filename[i] = "."
                   /\ \A j \in 1..(i-1) : filename[j] # "."
           rest == SubSeq(filename, k + 1, Len(filename))
           part == IF HasDot(rest)
                   THEN SubSeq(rest, 1, (CHOOSE i \in 1..Len(rest) :
                                            /\ rest[i] = "."
                                            /\ \A j \in 1..(i-1) : rest[j] # ".") - 1)
                   ELSE rest
       IN Lower(part) \in ALLOWED_EXTENSIONS

allowed_file(filename) ==
    /\ filename # <<>>
    /\ HasDot(filename)
    /\ Lower(RSplitDot1(filename)) \in ALLOWED_EXTENSIONS

(***************************************************************************)
(* Static knowledge tables                                                 *)
(***************************************************************************)
leaf_class_names ==
    <<"Aloevera", "Amruthaballi", "Arali", "Bhrami", "Curry leaves",
      "Doddpathre", "Hibiscus", "Mint", "Neem", "Tulsi", "Turmeric", "Unknown">>

leaf_info ==
    [n \in {"Aloevera", "Amruthaballi", "Tulsi", "Neem", "Mint", "Turmeric",
            "Ginger", "Lemon", "Guava", "Henna", "Hibiscus", "Rose", "Ashoka",
            "Curry leaves", "Arali", "Doddpathre"} |->
     CASE n = "Aloevera" ->
            [uses |-> "Soothes burns, reduces scars, hydrates skin, and promotes wound healing.",
             diseases |-> <<"Eczema", "Psoriasis", "Acne", "Skin ulcers", "Sunburn", "Dry skin">>]
       [] n = "Amruthaballi" ->
            [uses |-> "Detoxifies blood and reduces skin allergies.",
             diseases |-> <<"Skin rashes", "Skin allergies">>]
       [] n = "Tulsi" ->
            [uses |-> "Has antibacterial properties for skin health.",
             diseases |-> <<"Acne", "Skin infections">>]
       [] n = "Neem" ->
            [uses |-> "Powerful antimicrobial, treats many skin conditions.",
             diseases |-> <<"Eczema", "Acne", "Psoriasis", "Ringworm", "Scabies", "Fungal infections">>]
       [] n = "Mint" ->
            [uses |-> "Cools and refreshes skin.",
             diseases |-> <<"Acne", "Skin irritation">>]
       [] n = "Turmeric" ->
            [uses |-> "Natural anti-inflammatory for skin issues.",
             diseases |-> <<"Eczema", "Psoriasis", "Skin infections", "Wounds", "Acne scars">>]
       [] n = "Ginger" ->
            [uses |-> "Improves skin elasticity and reduces inflammation.",
             diseases |-> <<"Inflammatory skin conditions", "Skin aging">>]
       [] n = "Lemon" ->
            [uses |-> "Lightens pigmentation and reduces acne scars.",
             diseases |-> <<"Hyperpigmentation", "Acne scars", "Oily skin">>]
       [] n = "Guava" ->
            [uses |-> "Improves skin texture and prevents premature aging.",
             diseases |-> <<"Skin aging", "Wrinkles">>]
       [] n = "Henna" ->
            [uses |-> "Cools skin and treats fungal issues.",
             diseases |-> <<"Fungal skin infections", "Skin rashes", "Burns">>]
       [] n = "Hibiscus" ->
            [uses |-> "Rejuvenates skin and reduces aging signs.",
             diseases |-> <<"Wrinkles", "Skin aging">>]
       [] n = "Rose" ->
            [uses |-> "Improves skin glow and soothes irritation.",
             diseases |-> <<"Acne", "Dry skin", "Skin irritation">>]
       [] n = "Ashoka" ->
            [uses |-> "Has properties for skin rejuvenation.",
             diseases |-> <<"Skin pigmentation", "Premature aging">>]
       [] n = "Curry leaves" ->
            [uses |-> "Nourishes skin and prevents dryness.",
             diseases |-> <<"Dry skin">>]
       [] n = "Arali" ->
            [uses |-> "Reduces inflammation, soothes rashes and promotes wound healing.",
             diseases |-> <<"Eczema", "Ringworm", "Minor Wounds">>]
       [] n = "Doddpathre" ->
            [uses |-> "Soothes the skin and reduces itching, redness and microbial infections.",
             diseases |-> <<"Skin rashes", "Eczema", "Ringworm">>]]

\* leaf_info.get(leaf_name, {"uses":"No info","diseases":[]})
LeafInfoGet(leaf_name) ==
    IF leaf_name \in DOMAIN leaf_info
    THEN leaf_info[leaf_name]
    ELSE [uses |-> "No info", diseases |-> <<>>]

recommendations ==
    [c \in {"acne", "eczema", "psoriasis", "ringworm", "unknown"} |->
     CASE c = "acne" -> "Neem leaves act as a natural antibacterial agent..."
       [] c = "eczema" -> "Aloe vera and neem leaves help calm itching..."
       [] c = "psoriasis" -> "Neem and aloe vera leaves reduce scaling..."
       [] c = "ringworm" -> "Basil (Tulsi) and neem leaves possess antifungal properties..."
       [] c = "unknown" -> "No recommendation."]

\* recommendations.get(pred_class, "No recommendation")
RecommendationGet(pred_class) ==
    IF pred_class \in DOMAIN recommendations
    THEN recommendations[pred_class]
    ELSE "No recommendation"

(***************************************************************************)
(* Inference adapter                                                       *)
(***************************************************************************)
\* the leaf threshold, a percentage (conf < 10.0)
LeafThreshold == 10
\* the skin threshold in hundredths of a probability (conf < 0.05)
SkinThresholdHundredths == 5

\* np.max(preds)
MaxOf(preds) == CHOOSE m \in {preds[i] : i \in 1..Len(preds)} :
                    \A i \in 1..Len(preds) : preds[i] <= m

\* int(np.argmax(preds)): the first index of the maximum, counted from 0
ArgMax(preds) ==
    (CHOOSE i \in 1..Len(preds) :
        /\ \A j \in 1..Len(preds) : preds[j] <= preds[i]
        /\ \A j \in 1..(i-1) : preds[j] < preds[i]) - 1

\* what a classifier call gives: a fault (load_img raised) or (label, conf)
Raised == [ok |-> FALSE, label |-> "", conf |-> 0]
Returned(label, conf) == [ok |-> TRUE, label |-> label, conf |-> conf]

PredictLeafInclusiveThreshold(loaded, decodable, preds) ==
    IF ~loaded THEN Returned("Unknown", 0)
    ELSE IF ~decodable THEN Raised
    ELSE LET idx == ArgMax(preds)
             conf == MaxOf(preds) * 100
             name == IF idx < Len(leaf_class_names)
                     THEN leaf_class_names[idx + 1] ELSE "Unknown"
         IN IF conf <= LeafThreshold * ProbUnit
            THEN Returned("Not a Leaf", conf)
            ELSE Returned(name, conf)

PredictLeafFailsUnloaded(loaded, decodable, preds) ==
    IF ~loaded \/ ~decodable THEN Raised
    ELSE LET idx == ArgMax(preds)
             conf == MaxOf(preds) * 100
             name == IF idx < Len(leaf_class_names)
                     THEN leaf_class_names[idx + 1] ELSE "Unknown"
         IN IF conf < LeafThreshold * ProbUnit
            THEN Returned("Not a Leaf", conf)
            ELSE Returned(name, conf)

\* predict_leaf_image, given whether leaf_model is loaded, whether the saved
\* upload decodes as an image, and the model's output for it.  conf is a
\* percentage in 1/ProbUnit.
predict_leaf_image(loaded, decodable, preds) ==
    IF ~loaded THEN Returned("Unknown", 0)
    ELSE IF ~decodable THEN Raised
    ELSE LET idx == ArgMax(preds)
             conf == MaxOf(preds) * 100
             name == IF idx < Len(leaf_class_names)
                     THEN leaf_class_names[idx + 1] ELSE "Unknown"
         IN IF conf < LeafThreshold * ProbUnit
            THEN Returned("Not a Leaf", conf)
            ELSE Returned(name, conf)

\* predict_skin_image, given whether skin_model is loaded, the class list,
\* whether the upload decodes and the model's output.  conf is a probability
\* in 1/ProbUnit.
predict_skin_image(loaded, classes, decodable, preds) ==
    IF ~loaded \/ classes = <<>> THEN Returned("unknown", 0)
    ELSE IF ~decodable THEN Raised
    ELSE LET idx == ArgMax(preds)
             conf == MaxOf(preds)
             pred == IF idx < Len(classes) THEN classes[idx + 1] ELSE "unknown"
         IN IF conf * 100 < SkinThresholdHundredths * ProbUnit
            THEN Returned("unknown", 0)
            ELSE Returned(pred, conf)

(***************************************************************************)
(* Credential store                                                        *)
(***************************************************************************)
\* the digest werkzeug computes from a salt and a password
Digest(salt, password) == <<"pbkdf2", salt, password>>

\* generate_password_hash(password), with the salt it drew
generate_password_hash(password, salt) ==
    [method |-> "pbkdf2", salt |-> salt, hashval |-> Digest(salt, password)]

\* check_password_hash(pwhash, password)
check_password_hash(pwhash, password) ==
    Digest(pwhash.salt, password) = pwhash.hashval

\* users_collection.find_one({"email": email}): the matching records, in
\* insertion order
Matching(email) == SelectSeq(users, LAMBDA u : u.email = email)

FindNone(email) == <<>>

\* the result of find_one as a sequence: empty (None) or the first match
find_one(email) ==
    IF Matching(email) = <<>> THEN <<>> ELSE <<Head(Matching(email))>>

(***************************************************************************)
(* Sessions and responses                                                  *)
(***************************************************************************)
NoUser == [present |-> FALSE, email |-> "", fullname |-> ""]
User(email, fullname) == [present |-> TRUE, email |-> email, fullname |-> fullname]

NoPending == [active |-> FALSE, fullname |-> "", email |-> "", password |-> ""]

NoBody == [kind |-> "none"]
NoForm == [fullname |-> "", email |-> "", password |-> "", confirm |-> ""]
Form(fullname, email, password, confirm) ==
    [fullname |-> fullname, email |-> email, password |-> password, confirm |-> confirm]
File(filename, decodable, preds) ==
    [present |-> TRUE, filename |-> filename, decodable |-> decodable, preds |-> preds]
NoFile == [present |-> FALSE, filename |-> <<>>, decodable |-> FALSE, preds |-> <<>>]

\* flash(text): the notice, with the name a welcome carries
Flash(text) == [text |-> text, arg |-> ""]
NoFlash == Flash("")

Render(template) == [status |-> 200, target |-> template, flash |-> NoFlash, body |-> NoBody]
Redirect(endpoint, flash) == [status |-> 302, target |-> endpoint, flash |-> flash, body |-> NoBody]
Json(status, body) == [status |-> status, target |-> "", flash |-> NoFlash, body |-> body]
\* an exception that leaves the handler: Flask answers 500
ServerError == [status |-> 500, target |-> "", flash |-> NoFlash, body |-> NoBody]
\* the handler has not answered yet
NoResponse == [status |-> 0, target |-> "", flash |-> NoFlash, body |-> NoBody]

Step(route, b, authed, form, file, calls, resp) ==
    [route |-> route, browser |-> b, authed |-> authed, form |-> form,
     file |-> file, calls |-> calls, resp |-> resp]

GateOpen(b) == b = b

\* login_required's test: "user" in session
HasUser(b) == session[b].present


\* login_required: without a user in the session the request is answered
\* with a redirect to login and the route's handler does not run
login_required(b, route, form, file, handler) ==
    IF ~HasUser(b)
    THEN /\ last' = Step(route, b, FALSE, form, file, {},
                         Redirect("login", Flash("Please login first")))
         /\ UNCHANGED <<users, scans, uploads, session, pending,
                        leaf_model, skin_model, disease_classes>>
    ELSE handler

\* a handler that only renders or redirects
Answer(route, b, form, resp) ==
    /\ last' = Step(route, b, HasUser(b), form, NoFile, {}, resp)
    /\ UNCHANGED <<users, scans, uploads, session, pending,
                   leaf_model, skin_model, disease_classes>>

(***************************************************************************)
(* Page routes                                                             *)
(***************************************************************************)
home(b) == Answer("GET /", b, NoForm, Render("main_page.html"))

explore(b) == Answer("GET /explore", b, NoForm, Redirect("login", NoFlash))

scan_home(b) ==
    login_required(b, "GET /scan_home", NoForm, NoFile,
        Answer("GET /scan_home", b, NoForm, Render("scanning.html")))

scan_leaf_page(b) ==
    login_required(b, "GET /scan_leaf", NoForm, NoFile,
        Answer("GET /scan_leaf", b, NoForm, Render("scan_leaf.html")))

scan_skin_page(b) ==
    login_required(b, "GET /scan_skin", NoForm, NoFile,
        Answer("GET /scan_skin", b, NoForm, Render("scan_skin.html")))

register_get(b) == Answer("GET /register", b, NoForm, Render("register.html"))

login_get(b) == Answer("GET /login", b, NoForm, Render("login.html"))

(***************************************************************************)
(* Registration, login, logout                                             *)
(***************************************************************************)
\* POST /register up to and including find_one: the validations, and for a
\* request that passes them the record it is about to insert
register(b, fullname, email, password, confirm) ==
    LET form == Form(fullname, email, password, confirm) IN
    /\ ~pending[b].active
    /\ UNCHANGED <<users, scans, uploads, session,
                   leaf_model, skin_model, disease_classes>>
    /\ IF fullname = "" \/ email = "" \/ password = ""
       THEN /\ last' = Step("POST /register", b, HasUser(b), form, NoFile, {},
                            Redirect("register", Flash("All fields required")))
            /\ UNCHANGED pending
       ELSE IF password # confirm
       THEN /\ last' = Step("POST /register", b, HasUser(b), form, NoFile, {},
                            Redirect("register", Flash("Passwords do not match")))
            /\ UNCHANGED pending
       ELSE IF find_one(email) # <<>>
       THEN /\ last' = Step("POST /register", b, HasUser(b), form, NoFile,
                            {"users.find_one"},
                            Redirect("register", Flash("Email already registered")))
            /\ UNCHANGED pending
       ELSE /\ last' = Step("POST /register", b, HasUser(b), form, NoFile,
                            {"users.find_one"}, NoResponse)
            /\ pending' = [pending EXCEPT ![b] =
                             [active |-> TRUE, fullname |-> fullname,
                              email |-> email, password |-> password]]

\* POST /register from insert_one on, for a request that passed find_one
register_insert(b, salt) ==
    /\ pending[b].active
    /\ users' = Append(users,
                       [fullname |-> pending[b].fullname,
                        email |-> pending[b].email,
                        password |-> generate_password_hash(pending[b].password, salt)])
    /\ pending' = [pending EXCEPT ![b] = NoPending]
    /\ last' = Step("POST /register", b, HasUser(b),
                    Form(pending[b].fullname, pending[b].email,
                         pending[b].password, pending[b].password),
                    NoFile, {"users.insert_one"},
                    Redirect("login", Flash("Registration successful! Login now.")))
    /\ UNCHANGED <<scans, uploads, session, leaf_model, skin_model, disease_classes>>

\* POST /login
login(b, email, password) ==
    LET form == Form("", email, password, "")
        user == find_one(email)
    IN
    /\ UNCHANGED <<users, scans, uploads, pending,
                   leaf_model, skin_model, disease_classes>>
    /\ IF user # <<>> /\ check_password_hash(user[1].password, password)
       THEN /\ session' = [session EXCEPT ![b] = User(email, user[1].fullname)]
            /\ last' = Step("POST /login", b, HasUser(b), form, NoFile,
                            {"users.find_one"},
                            Redirect("scan_home",
                                     [text |-> "Welcome",
                                      arg |-> IF user[1].fullname # ""
                                              THEN user[1].fullname ELSE email]))
       ELSE /\ UNCHANGED session
            /\ last' = Step("POST /login", b, HasUser(b), form, NoFile,
                            {"users.find_one"},
                            Redirect("login", Flash("Invalid credentials")))

LogoutKeepsSession(b) ==
    /\ last' = Step("GET /logout", b, HasUser(b), NoForm, NoFile, {},
                    Redirect("home", Flash("Logged out")))
    /\ UNCHANGED <<users, scans, uploads, session, pending,
                   leaf_model, skin_model, disease_classes>>

\* GET /logout
logout(b) ==
    /\ session' = [session EXCEPT ![b] = NoUser]
    /\ last' = Step("GET /logout", b, HasUser(b), NoForm, NoFile, {},
                    Redirect("home", Flash("Logged out")))
    /\ UNCHANGED <<users, scans, uploads, pending,
                   leaf_model, skin_model, disease_classes>>

(***************************************************************************)
(* Prediction endpoints                                                    *)
(***************************************************************************)
\* f"{int(utcnow().timestamp()*1000)}_{filename}"
SafeName(ms, filename) == [ms |-> ms, name |-> filename]

LeafRecord(leaf_name, conf, filename, ms, now) ==
    [type |-> "leaf", leaf_name |-> leaf_name,
     uses |-> LeafInfoGet(leaf_name).uses,
     diseases |-> LeafInfoGet(leaf_name).diseases,
     confidence |-> conf, filename |-> filename,
     saved_name |-> SafeName(ms, filename), timestamp |-> now]

SkinRecordNoConfidence(pred_class, conf, filename, ms, now) ==
    [type |-> "skin", predicted_class |-> pred_class,
     confidence |-> 0, filename |-> filename,
     saved_name |-> SafeName(ms, filename), timestamp |-> now]

SkinRecord(pred_class, conf, filename, ms, now) ==
    [type |-> "skin", predicted_class |-> pred_class,
     confidence |-> conf, filename |-> filename,
     saved_name |-> SafeName(ms, filename), timestamp |-> now]

\* the body of predict_leaf, behind login_required.  ms and now are the two
\* readings of the clock.
PredictLeafBody(b, file, ms, now) ==
    LET route == "POST /predict-leaf" IN
    /\ UNCHANGED <<users, session, pending, leaf_model, skin_model, disease_classes>>
    /\ IF ~file.present
       THEN /\ last' = Step(route, b, TRUE, NoForm, file, {},
                            Json(400, [kind |-> "error", error |-> "no file"]))
            /\ UNCHANGED <<scans, uploads>>
       ELSE IF file.filename = <<>> \/ ~allowed_file(file.filename)
       THEN /\ last' = Step(route, b, TRUE, NoForm, file, {},
                            Json(400, [kind |-> "error", error |-> "invalid file"]))
            /\ UNCHANGED <<scans, uploads>>
       ELSE /\ uploads' = uploads \cup {SafeName(ms, file.filename)}
            /\ \E r \in {predict_leaf_image(leaf_model, file.decodable, file.preds)} :
               IF ~r.ok
               THEN /\ last' = Step(route, b, TRUE, NoForm, file,
                                    {"file.save", "predict_leaf_image"}, ServerError)
                    /\ UNCHANGED scans
               ELSE /\ scans' = Append(scans,
                                  LeafRecord(r.label, r.conf, file.filename, ms, now))
                    /\ last' = Step(route, b, TRUE, NoForm, file,
                                    {"file.save", "predict_leaf_image",
                                     "scans.insert_one"},
                                    Json(200, [kind |-> "leaf",
                                               leaf_name |-> r.label,
                                               uses |-> LeafInfoGet(r.label).uses,
                                               diseases |-> LeafInfoGet(r.label).diseases,
                                               confidence |-> r.conf]))

\* POST /predict-leaf
predict_leaf(b, file, ms, now) ==
    login_required(b, "POST /predict-leaf", NoForm, file,
                   PredictLeafBody(b, file, ms, now))

\* the body of predict_skin, behind login_required
PredictSkinBody(b, file, ms, now) ==
    LET route == "POST /predict" IN
    /\ UNCHANGED <<users, session, pending, leaf_model, skin_model, disease_classes>>
    /\ IF ~file.present
       THEN /\ last' = Step(route, b, TRUE, NoForm, file, {},
                            Json(200, [kind |-> "skin",
                                       predicted_class |-> "No image",
                                       confidence |-> 0,
                                       recommendation |-> "N/A"]))
            /\ UNCHANGED <<scans, uploads>>
       ELSE /\ uploads' = uploads \cup {SafeName(ms, file.filename)}
            /\ \E r \in {predict_skin_image(skin_model, disease_classes,
                                            file.decodable, file.preds)} :
               IF ~r.ok
               THEN /\ last' = Step(route, b, TRUE, NoForm, file,
                                    {"file.save", "predict_skin_image"}, ServerError)
                    /\ UNCHANGED scans
               ELSE /\ scans' = Append(scans,
                                  SkinRecord(r.label, r.conf, file.filename, ms, now))
                    /\ last' = Step(route, b, TRUE, NoForm, file,
                                    {"file.save", "predict_skin_image",
                                     "scans.insert_one"},
                                    Json(200, [kind |-> "skin",
                                               predicted_class |-> r.label,
                                               confidence |-> r.conf,
                                               recommendation |-> RecommendationGet(r.label)]))

\* POST /predict
predict_skin(b, file, ms, now) ==
    login_required(b, "POST /predict", NoForm, file,
                   PredictSkinBody(b, file, ms, now))

(***************************************************************************)
(* Scan history                                                            *)
(***************************************************************************)
\* the result-set limit of /scans
ScanLimit == 200

\* whether s[i] comes before s[j] when s is ordered by timestamp descending.
\* Records of one timestamp come in an order the database does not promise:
\* in the order they were inserted, or in the opposite order when tiesAfter.
ComesBefore(s, i, j, tiesAfter) ==
    \/ s[i].timestamp > s[j].timestamp
    \/ /\ s[i].timestamp = s[j].timestamp
       /\ IF tiesAfter THEN i > j ELSE i < j

\* the place of each record of s in the ordered result
RanksDesc(s, tiesAfter) ==
    [i \in 1..Len(s) |->
        1 + Cardinality({j \in 1..Len(s) : ComesBefore(s, j, i, tiesAfter)})] \o <<>>

RanksAsc(s, tiesAfter) ==
    [i \in 1..Len(s) |->
        1 + Cardinality({j \in 1..Len(s) : ComesBefore(s, i, j, tiesAfter)})] \o <<>>

\* the records of s, each at its place
Arrange(s, rank) ==
    [k \in 1..Len(s) |-> s[CHOOSE i \in 1..Len(s) : rank[i] = k]] \o <<>>

SortAsc(s, tiesAfter) == Arrange(s, RanksAsc(s, tiesAfter))

\* .sort("timestamp", -1)
SortDesc(s, tiesAfter) == Arrange(s, RanksDesc(s, tiesAfter))

\* .limit(n)
Limit(s, n) == SubSeq(s, 1, IF Len(s) < n THEN Len(s) ELSE n)

\* scans_collection.find({}, {"_id": 0}).sort("timestamp", -1).limit(200)
RecentScans(tiesAfter) == Limit(SortDesc(scans, tiesAfter), ScanLimit)

\* GET /scans
get_scans(b, tiesAfter) ==
    login_required(b, "GET /scans", NoForm, NoFile,
        /\ last' = Step("GET /scans", b, TRUE, NoForm, NoFile, {"scans.find"},
                        Json(200, [kind |-> "scans", docs |-> RecentScans(tiesAfter)]))
        /\ UNCHANGED <<users, scans, uploads, session, pending,
                       leaf_model, skin_model, disease_classes>>)

(***************************************************************************)
(* Inputs                                                                  *)
(***************************************************************************)
leaf_png == <<"l","e","a","f",".","p","n","g">>
leaf_txt == <<"l","e","a","f",".","t","x","t">>
LEAF_JPG == <<"L","E","A","F",".","J","P","G">>
x_JpEg == <<"x",".","J","p","E","g">>
a_png_txt == <<"a",".","p","n","g",".","t","x","t">>
a_txt_jpeg == <<"a",".","t","x","t",".","j","p","e","g">>
dot_png == <<".","p","n","g">>
png_only == <<"p","n","g">>
leaf_dot == <<"l","e","a","f",".">>
empty_name == <<>>

FileNames == {leaf_png, leaf_txt, LEAF_JPG, x_JpEg, a_png_txt, a_txt_jpeg,
              dot_png, png_only, leaf_dot, empty_name}

\* a model output of n values: hi at place k, lo elsewhere
PeakVector(n, k, hi, lo) == [i \in 1..n |-> IF i = k THEN hi ELSE lo]

\* the values around the two thresholds (10% and 0.05 of ProbUnit), and a sure one
PeakValues == {49, 50, 99, 100, 900}

\* outputs of 4, 12 and 13 classes peaking at the first or the last class,
\* and outputs whose values are all equal
PredVectors ==
    {PeakVector(n, 1, hi, 0) : n \in {4, 12, 13}, hi \in PeakValues}
    \cup {PeakVector(n, n, hi, 0) : n \in {4, 12, 13}, hi \in PeakValues}
    \cup {PeakVector(n, 1, hi, hi) : n \in {4, 12}, hi \in PeakValues}

\* the class lists classes.txt may hold
ClassLists == {<<>>, <<"acne", "eczema", "psoriasis", "ringworm">>}

Neem900 == PeakVector(12, 9, 900, 0)

\* the registration forms: the complete ones, and one for each way the
\* validations reject (a field left empty, a confirmation that differs)
RegisterForms ==
    {Form(f, e, p, p) : f \in Fullnames, e \in Emails, p \in Passwords}
    \cup {Form("", "a@x.com", "pw1234", "pw1234"),
          Form("A", "", "pw1234", "pw1234"),
          Form("A", "a@x.com", "pw1234", "hunter2")}

\* the login forms: every email with every password
LoginForms == {Form("", e, p, "") : e \in Emails, p \in Passwords}

\* the uploads of Spec: none, or an image with an allowed name
SpecFiles == {NoFile, File(leaf_png, TRUE, Neem900)}

\* the uploads of SpecPredict: none, every file name, every model output,
\* and a file that does not decode
PredictFiles ==
    {NoFile}
    \cup {File(f, TRUE, Neem900) : f \in FileNames}
    \cup {File(leaf_png, TRUE, p) : p \in PredVectors}
    \cup {File(f, FALSE, Neem900) : f \in {leaf_png, leaf_txt}}

(***************************************************************************)
(* Spec: every route, from an empty database                               *)
(***************************************************************************)
Init ==
    /\ users = <<>>
    /\ scans = <<>>
    /\ uploads = {}
    /\ session = [b \in Browsers |-> NoUser]
    /\ pending = [b \in Browsers |-> NoPending]
    /\ leaf_model = FALSE
    /\ skin_model = FALSE
    /\ disease_classes = <<>>
    /\ last = Step("start", "b1", FALSE, NoForm, NoFile, {}, NoResponse)

\* the records stored and about to be stored stay within MaxUsers
UserCap ==
    Len(users') + Cardinality({b \in Browsers : pending'[b].active}) <= MaxUsers

Next ==
    \/ \E b \in Browsers : home(b)
    \/ \E b \in Browsers : explore(b)
    \/ \E b \in Browsers : scan_home(b)
    \/ \E b \in Browsers : scan_leaf_page(b)
    \/ \E b \in Browsers : scan_skin_page(b)
    \/ \E b \in Browsers : register_get(b)
    \/ \E b \in Browsers, f \in RegisterForms :
          register(b, f.fullname, f.email, f.password, f.confirm) /\ UserCap
    \/ \E b \in Browsers, salt \in Salts : register_insert(b, salt)
    \/ \E b \in Browsers : login_get(b)
    \/ \E b \in Browsers, f \in LoginForms : login(b, f.email, f.password)
    \/ \E b \in Browsers : logout(b)
    \/ \E b \in Browsers, file \in SpecFiles :
          predict_leaf(b, file, 1, 1) /\ Len(scans') <= MaxScans
    \/ \E b \in Browsers, file \in SpecFiles :
          predict_skin(b, file, 1, 1) /\ Len(scans') <= MaxScans
    \/ \E b \in Browsers, tiesAfter \in BOOLEAN : get_scans(b, tiesAfter)

Spec == Init /\ [][Next]_vars

(***************************************************************************)
(* SpecPredict: the protected routes and the classifiers, over a database  *)
(* that holds one user and one scan of an earlier run                      *)
(***************************************************************************)
RegisteredUser ==
    [fullname |-> "A", email |-> "a@x.com",
     password |-> generate_password_hash("pw1234", "s1")]

EarlierScan == SkinRecord("acne", 870, leaf_png, 0, 0)

InitPredict ==
    /\ users = <<RegisteredUser>>
    /\ scans = <<EarlierScan>>
    /\ uploads = {EarlierScan.saved_name}
    /\ session = [b \in Browsers |-> NoUser]
    /\ pending = [b \in Browsers |-> NoPending]
    /\ leaf_model \in BOOLEAN
    /\ skin_model \in BOOLEAN
    /\ disease_classes \in ClassLists
    /\ last = Step("start", "b1", FALSE, NoForm, NoFile, {}, NoResponse)

\* at most MaxPredictScans scans are added to the earlier one
ScanCap == Len(scans') <= 1 + MaxPredictScans

NextPredict ==
    \/ login("b1", "a@x.com", "pw1234")
    \/ login("b1", "a@x.com", "hunter2")
    \/ logout("b1")
    \/ scan_home("b1")
    \/ scan_leaf_page("b1")
    \/ scan_skin_page("b1")
    \/ \E file \in PredictFiles : predict_leaf("b1", file, 1, 1) /\ ScanCap
    \/ \E file \in PredictFiles : predict_skin("b1", file, 1, 1) /\ ScanCap
    \/ \E tiesAfter \in BOOLEAN : get_scans("b1", tiesAfter)

SpecPredict == InitPredict /\ [][NextPredict]_vars

(***************************************************************************)
(* SpecScans: /scans over a scan log around ScanLimit records long         *)
(***************************************************************************)
\* the timestamps of a log written earlier: rising, falling, all equal, or
\* repeating 0, 1, 2
LogPatterns == {"rising", "falling", "equal", "repeating"}

PatternTime(pattern, i) ==
    CASE pattern = "rising" -> i
      [] pattern = "falling" -> 1000 - i
      [] pattern = "equal" -> 100
      [] pattern = "repeating" -> i % 3

EarlierLog(n, pattern) ==
    [i \in 1..n |-> LeafRecord("Unknown", 0, leaf_png,
                               PatternTime(pattern, i), PatternTime(pattern, i))]

\* the clock readings of SpecScans: before, among and after the earlier ones
ScanClock == {0, 100, 2000}

InitScans ==
    /\ users = <<RegisteredUser>>
    /\ \E n \in {0, ScanLimit - 1, ScanLimit}, pattern \in LogPatterns :
          scans = EarlierLog(n, pattern)
    /\ uploads = {}
    /\ session = [b \in Browsers |->
                    IF b = "b1" THEN User("a@x.com", "A") ELSE NoUser]
    /\ pending = [b \in Browsers |-> NoPending]
    /\ leaf_model = FALSE
    /\ skin_model = FALSE
    /\ disease_classes = <<>>
    /\ last = Step("start", "b1", FALSE, NoForm, NoFile, {}, NoResponse)

\* the log holds at most MaxExtra records, or is within MaxExtra of ScanLimit
LogCap ==
    \/ Len(scans') <= MaxExtra
    \/ Len(scans') >= ScanLimit - 1 /\ Len(scans') <= ScanLimit + MaxExtra

NextScans ==
    \/ \E t \in ScanClock :
          predict_leaf("b1", File(leaf_png, TRUE, Neem900), t, t) /\ LogCap
    \/ \E t \in ScanClock :
          predict_skin("b1", File(leaf_png, TRUE, Neem900), t, t) /\ LogCap
    \/ \E tiesAfter \in BOOLEAN : get_scans("b1", tiesAfter)

SpecScans == InitScans /\ [][NextScans]_vars

(***************************************************************************)
(* Properties                                                              *)
(***************************************************************************)
\* the users collection holds a record with this email
HasRecord(email) == \E i \in 1..Len(users) : users[i].email = email

\* s is an initial part of t
IsPrefix(s, t) == Len(s) <= Len(t) /\ SubSeq(t, 1, Len(s)) = s

\* how many times r occurs in s
Count(s, r) == Cardinality({i \in 1..Len(s) : s[i] = r})

ProtectedRoutes == {"GET /scan_home", "GET /scan_leaf", "GET /scan_skin",
                    "POST /predict", "POST /predict-leaf", "GET /scans"}

\* the step just taken handled a POST /register up to its find_one
RegisterHandled ==
    /\ last'.route = "POST /register"
    /\ "users.insert_one" \notin last'.calls

\* C1, as stated: a POST /register whose email has a record when it is
\* handled is answered with a redirect to the register form carrying the
\* 'Email already registered' notice, and leaves the users collection as it is.
C1_AlreadyRegisteredNotice ==
    [][(RegisterHandled /\ HasRecord(last'.form.email))
       => /\ last'.resp = Redirect("register", Flash("Email already registered"))
          /\ users' = users]_vars

\* C1, amended: such a request is answered with a redirect to the register
\* form, adds no record (none is stored, none is left to be stored) and
\* changes none; the notice is that of the first validation that fails:
\* 'All fields required', 'Passwords do not match', and 'Email already
\* registered' only for a complete form whose passwords agree.
C1_DuplicateEmailRejected ==
    [][(RegisterHandled /\ HasRecord(last'.form.email))
       => /\ users' = users
          /\ pending' = pending
          /\ last'.resp.status = 302
          /\ last'.resp.target = "register"
          /\ last'.resp.flash =
                Flash(IF last'.form.fullname = "" \/ last'.form.password = ""
                      THEN "All fields required"
                      ELSE IF last'.form.password # last'.form.confirm
                      THEN "Passwords do not match"
                      ELSE "Email already registered")]_vars

\* a complete form for a registered email has just been turned away
C1_Witness ==
    /\ last.route = "POST /register"
    /\ HasRecord(last.form.email)
    /\ last.form.fullname # ""
    /\ last.form.password = last.form.confirm
    /\ last.resp = Redirect("register", Flash("Email already registered"))

\* C2: no two user records have the same email, in every reachable state,
\* whatever the interleaving of register requests.
C2_EmailUnique ==
    \A i, j \in 1..Len(users) : users[i].email = users[j].email => i = j

\* C3: a request to a protected route from a browser whose session holds no
\* user is redirected to login with the notice, and the handler does not
\* run: it makes no call, saves no upload, appends no scan and returns no
\* scan (the answer has no body).
C3_GateShortCircuits ==
    [][(last'.route \in ProtectedRoutes /\ ~session[last'.browser].present)
       => /\ last'.resp = Redirect("login", Flash("Please login first"))
          /\ last'.calls = {}
          /\ uploads' = uploads
          /\ scans' = scans
          /\ users' = users
          /\ session' = session]_vars

\* an upload with an allowed name sent to /predict-leaf without a session
\* has just been redirected
C3_Witness ==
    /\ last.route = "POST /predict-leaf"
    /\ last.file.present
    /\ last.file.filename = leaf_png
    /\ ~session[last.browser].present
    /\ last.resp.target = "login"

\* the records a login with this email and password is entitled to
Credentials(email, password) ==
    {i \in 1..Len(users) :
        /\ users[i].email = email
        /\ check_password_hash(users[i].password, password)}

\* C4: a POST /login from a browser with no session is rejected with
\* 'Invalid credentials' and sets no session when no record has the email or
\* the password does not verify; with a registered email and the password it
\* was registered with it sets a session holding the email and the stored
\* fullname; and a GET /scan_home with a session is served.
C4_LoginOutcome ==
    [][/\ (last'.route = "POST /login" /\ ~session[last'.browser].present)
          => IF Credentials(last'.form.email, last'.form.password) = {}
             THEN /\ last'.resp = Redirect("login", Flash("Invalid credentials"))
                  /\ session' = session
             ELSE /\ last'.resp.status = 302
                  /\ last'.resp.target = "scan_home"
                  /\ \E i \in Credentials(last'.form.email, last'.form.password) :
                        session'[last'.browser] =
                            User(last'.form.email, users[i].fullname)
       /\ (last'.route = "GET /scan_home" /\ session[last'.browser].present)
          => last'.resp = Render("scanning.html")]_vars

\* C4 where it holds: the same, for an email that has one record
C4_LoginOutcomeUniqueEmail ==
    [][/\ (/\ last'.route = "POST /login"
           /\ ~session[last'.browser].present
           /\ Cardinality({i \in 1..Len(users) : users[i].email = last'.form.email}) <= 1)
          => IF Credentials(last'.form.email, last'.form.password) = {}
             THEN /\ last'.resp = Redirect("login", Flash("Invalid credentials"))
                  /\ session' = session
             ELSE /\ last'.resp.status = 302
                  /\ last'.resp.target = "scan_home"
                  /\ \E i \in Credentials(last'.form.email, last'.form.password) :
                        session'[last'.browser] =
                            User(last'.form.email, users[i].fullname)
       /\ (last'.route = "GET /scan_home" /\ session[last'.browser].present)
          => last'.resp = Render("scanning.html")]_vars

\* the largest value of a model output, and the label its first place maps to
Largest(preds) == CHOOSE m \in {preds[i] : i \in 1..Len(preds)} :
                      \A i \in 1..Len(preds) : preds[i] <= m

FirstLargest(preds) ==
    CHOOSE i \in 1..Len(preds) :
        preds[i] = Largest(preds) /\ \A j \in 1..(i-1) : preds[j] # Largest(preds)

LabelAt(names, place, fallback) ==
    IF place <= Len(names) THEN names[place] ELSE fallback

\* C5: when a loaded classifier is invoked and its largest output is
\* strictly below the threshold (10 percent for leaf, 0.05 for skin) the
\* label returned is the sentinel ('Not a Leaf'; 'unknown' with confidence
\* 0), whatever the label of the largest output; at or above the threshold
\* it is the label the place of the largest output maps to.
C5_ThresholdSentinel ==
    /\ (/\ last.route = "POST /predict-leaf"
        /\ last.resp.status = 200
        /\ leaf_model)
       => IF Largest(last.file.preds) * 100 < 10 * ProbUnit
          THEN last.resp.body.leaf_name = "Not a Leaf"
          ELSE last.resp.body.leaf_name =
                  LabelAt(leaf_class_names, FirstLargest(last.file.preds), "Unknown")
    /\ (/\ last.route = "POST /predict"
        /\ last.resp.status = 200
        /\ last.file.present
        /\ skin_model)
       => IF Largest(last.file.preds) * 100 < 5 * ProbUnit
          THEN /\ last.resp.body.predicted_class = "unknown"
               /\ last.resp.body.confidence = 0
          ELSE last.resp.body.predicted_class =
                  LabelAt(disease_classes, FirstLargest(last.file.preds), "unknown")

\* the loaded leaf model's largest output was for 'Aloevera', just below 10
\* percent, and 'Not a Leaf' was returned
C5_Witness ==
    /\ last.route = "POST /predict-leaf"
    /\ last.resp.status = 200
    /\ leaf_model
    /\ last.file.preds = PeakVector(12, 1, 99, 0)
    /\ last.resp.body.leaf_name = "Not a Leaf"

\* the newest record returned is no older than the next, and so on
SortedDesc(docs) ==
    \A i \in 1..(Len(docs) - 1) : docs[i].timestamp >= docs[i + 1].timestamp

\* C6: an authenticated GET /scans returns at most 200 records, ordered by
\* timestamp non-increasing, all of them records of the log, as many as the
\* log has up to 200, and no record left out is later than one returned.
C6_RecentScans ==
    (last.route = "GET /scans" /\ last.resp.status = 200)
    => /\ Len(last.resp.body.docs) <= 200
       /\ SortedDesc(last.resp.body.docs)
       /\ Len(last.resp.body.docs) = IF Len(scans) < 200 THEN Len(scans) ELSE 200
       /\ \A i \in 1..Len(scans) :
             /\ Count(last.resp.body.docs, scans[i]) <= Count(scans, scans[i])
             /\ Count(last.resp.body.docs, scans[i]) < Count(scans, scans[i])
                => \A k \in 1..Len(last.resp.body.docs) :
                      scans[i].timestamp <= last.resp.body.docs[k].timestamp
       /\ \A k \in 1..Len(last.resp.body.docs) :
             Count(scans, last.resp.body.docs[k]) > 0

\* /scans has answered over a log of more than 200 records whose newest was
\* inserted last
C6_Witness ==
    /\ last.route = "GET /scans"
    /\ last.resp.status = 200
    /\ Len(scans) > 200
    /\ Len(last.resp.body.docs) = 200
    /\ scans[Len(scans)].timestamp = 2000
    /\ last.resp.body.docs[1].timestamp = 2000

\* the name is empty, or has no dot, or what follows its last dot is, in
\* lower case, none of png, jpg, jpeg
RejectedName(filename) ==
    \/ filename = <<>>
    \/ ~\E k \in 1..Len(filename) :
          /\ filename[k] = "."
          /\ \A j \in (k+1)..Len(filename) : filename[j] # "."
          /\ [i \in 1..(Len(filename) - k) |-> LowerChar(filename[k + i])]
                \in { <<"p","n","g">>, <<"j","p","g">>, <<"j","p","e","g">> }

\* C7: an authenticated POST /predict-leaf whose file name is empty or has an
\* extension outside png, jpg, jpeg is answered 400 'invalid file' and
\* changes nothing: no scan is appended, no file saved, no classifier called.
C7_InvalidFileRejected ==
    [][(/\ last'.route = "POST /predict-leaf"
        /\ session[last'.browser].present
        /\ last'.file.present
        /\ RejectedName(last'.file.filename))
       => /\ last'.resp = Json(400, [kind |-> "error", error |-> "invalid file"])
          /\ last'.calls = {}
          /\ scans' = scans
          /\ uploads' = uploads
          /\ users' = users
          /\ session' = session]_vars

\* an authenticated upload named a.png.txt has just been turned away
C7_Witness ==
    /\ last.route = "POST /predict-leaf"
    /\ session[last.browser].present
    /\ last.file.filename = a_png_txt
    /\ last.resp.status = 400

\* C8: an authenticated POST /predict-leaf with an allowed file name while
\* the leaf model is not loaded answers leaf_name 'Unknown' with confidence 0
\* and appends exactly one scan record, a leaf record with that label and
\* confidence.
C8_UnloadedLeafModel ==
    [][(/\ last'.route = "POST /predict-leaf"
        /\ session[last'.browser].present
        /\ last'.file.present
        /\ ~RejectedName(last'.file.filename)
        /\ ~leaf_model)
       => /\ last'.resp.status = 200
          /\ last'.resp.body.kind = "leaf"
          /\ last'.resp.body.leaf_name = "Unknown"
          /\ last'.resp.body.confidence = 0
          /\ Len(scans') = Len(scans) + 1
          /\ IsPrefix(scans, scans')
          /\ scans'[Len(scans')].type = "leaf"
          /\ scans'[Len(scans')].leaf_name = "Unknown"
          /\ scans'[Len(scans')].confidence = 0]_vars

\* without a leaf model, an upload named LEAF.JPG has been answered and logged
C8_Witness ==
    /\ ~leaf_model
    /\ last.route = "POST /predict-leaf"
    /\ last.file.filename = LEAF_JPG
    /\ last.resp.status = 200
    /\ scans[Len(scans)].type = "leaf"
    /\ scans[Len(scans)].filename = LEAF_JPG

\* the step just taken was a login that succeeded
LoginSucceeded ==
    /\ last'.route = "POST /login"
    /\ last'.resp.status = 302
    /\ last'.resp.target = "scan_home"

\* C9: a browser's session comes to hold a user only by a login of that
\* browser that succeeds and comes to hold none only by its /logout; a
\* successful login leaves a user in the session and a logout leaves none;
\* no other request (register, failed login, predict, scans, pages) changes
\* any session; and while the session holds no user every protected route
\* redirects to login.
C9_SessionLifecycle ==
    [][/\ \A b \in Browsers :
             session'[b] # session[b]
             => /\ last'.browser = b
                /\ \/ LoginSucceeded /\ session'[b].present
                   \/ last'.route = "GET /logout" /\ ~session'[b].present
       /\ LoginSucceeded => session'[last'.browser].present
       /\ last'.route = "GET /logout" => ~session'[last'.browser].present
       /\ (last'.route \in ProtectedRoutes /\ ~session[last'.browser].present)
          => /\ last'.resp.status = 302
             /\ last'.resp.target = "login"
       /\ (last'.route \in ProtectedRoutes /\ session[last'.browser].present)
          => ~(last'.resp.status = 302 /\ last'.resp.target = "login")]_vars

\* a browser that had logged in has logged out and a protected route has
\* just redirected it, while the other browser is still logged in
C9_Witness ==
    /\ last.route = "GET /scan_home"
    /\ last.browser = "b1"
    /\ last.resp.target = "login"
    /\ ~session["b1"].present
    /\ session["b2"].present
    /\ HasRecord("a@x.com")

\* the step just taken was a prediction request that got to the classifier:
\* behind the gate, with an image part, and for /predict-leaf an allowed name
ReachedClassifier ==
    /\ session[last'.browser].present
    /\ last'.file.present
    /\ \/ last'.route = "POST /predict"
       \/ last'.route = "POST /predict-leaf" /\ ~RejectedName(last'.file.filename)

\* the classifier call of the step just taken raised: the model (for skin,
\* the class list too) is loaded and the upload does not decode as an image
ClassifierRaised ==
    /\ ~last'.file.decodable
    /\ \/ last'.route = "POST /predict-leaf" /\ leaf_model
       \/ last'.route = "POST /predict" /\ skin_model /\ disease_classes # <<>>

\* the record appended by the step just taken is the response's: its type,
\* label and confidence
AppendedMatchesResponse ==
    /\ Len(scans') = Len(scans) + 1
    /\ last'.resp.status = 200
    /\ scans'[Len(scans')].type = last'.resp.body.kind
    /\ scans'[Len(scans')].confidence = last'.resp.body.confidence
    /\ IF last'.route = "POST /predict-leaf"
       THEN /\ scans'[Len(scans')].type = "leaf"
            /\ scans'[Len(scans')].leaf_name = last'.resp.body.leaf_name
       ELSE /\ scans'[Len(scans')].type = "skin"
            /\ scans'[Len(scans')].predicted_class = last'.resp.body.predicted_class

\* C10, as stated: every prediction request that gets to the classifier
\* appends exactly one record, which carries the response's type, label and
\* confidence; and every step leaves the log it found as an initial part of
\* the log it leaves.
C10_EveryClassifiedRequestLogged ==
    [][/\ IsPrefix(scans, scans')
       /\ ReachedClassifier => AppendedMatchesResponse]_vars

\* C10, amended: the log only grows at its end; a prediction request that
\* gets to the classifier appends exactly one record carrying the response's
\* type, label and confidence, unless the classifier call raises, and then
\* the request is answered 500, appends nothing and leaves its upload saved;
\* no other step appends.
C10_AppendOnly ==
    [][/\ IsPrefix(scans, scans')
       /\ (ReachedClassifier /\ ~ClassifierRaised) => AppendedMatchesResponse
       /\ (ReachedClassifier /\ ClassifierRaised)
          => /\ scans' = scans
             /\ last'.resp = ServerError
             /\ \E n \in uploads' : n.name = last'.file.filename
       /\ ~ReachedClassifier => scans' = scans]_vars

\* a skin prediction has been appended after the earlier scan, with the
\* confidence of its response
C10_Witness ==
    /\ Len(scans) = 2
    /\ scans[1] = EarlierScan
    /\ last.route = "POST /predict"
    /\ last.resp.status = 200
    /\ scans[2].type = "skin"
    /\ scans[2].predicted_class = "ringworm"
    /\ scans[2].confidence = 900
    /\ last.resp.body.confidence = 900

====
